---- MODULE Spec2Model ----
(***************************************************************************)
(* Client-side session orchestration of Nova (P2P video chat).             *)
(*                                                                         *)
(* Spec     : the web client (src/unnamed/part_007): session, media and   *)
(*            channel, without the events of the ICE agent.                *)
(* SpecLink : the web client once queued: negotiation and ICE resilience,  *)
(*            recording the restart history of the link.                   *)
(* SpecWire : as SpecLink, recording the offers and answers of the cycle.  *)
(* SpecChat : the iOS client (AppState.swift, WebRTCService in             *)
(*            src/unnamed/part_005, SocketService in src/unnamed/part_004),*)
(*            without the events of the ICE agent.                         *)
(* SpecIOS  : the iOS client in a chat: negotiation and ICE resilience.    *)
(*                                                                         *)
(* Every handler of the client runs to completion or to its next `await`;  *)
(* each action below is one such run.  The part of an async function that  *)
(* follows an `await` is a record in `tasks` until the awaited promise     *)
(* settles.  Platform behaviour the handlers depend on is taken from the   *)
(* W3C WebRTC recommendation: a promise of an RTCPeerConnection operation  *)
(* that is pending when the connection is closed is never settled, and a   *)
(* description created by one connection is rejected by another one.       *)
(* In the iOS client completion handlers run when libwebrtc delivers them, *)
(* also after the connection they belong to has been closed.               *)
(***************************************************************************)
EXTENDS Integers, Sequences, FiniteSets, TLC

\* ---------------------------------------------------------------- bounds
MaxPeers   == 2   \* peer connections that may be open at the same time
MaxStreams == 2   \* capture streams that may be live or referenced at once
MaxTasks   == 2   \* suspended continuations at once
MaxTimers  == 1   \* pending timers of each kind at once
MaxSent    == 2   \* saturation of the per-cycle offer and answer counts
MaxCount   == 4   \* saturation of the per-link history counters
MaxMsgs    == 2   \* chat messages submitted in a run of the text-chat client
MaxCycles  == 2   \* match cycles in a run of the text-chat client
MaxGrace   == 2   \* pending 3-second grace timers at once
MaxSockets == 2   \* sockets that may exist at the same time

\* ------------------------------------------------------ program constants
MAX_ICE_RESTARTS == 3
Rungs            == 4

PeerIds   == 1..MaxPeers
StreamIds == 1..MaxStreams
\* "new" stands for the states new and checking, which no handler tells apart.
IceStates == {"new", "connected", "completed", "disconnected", "failed", "closed"}

\* ----------------------------------------- state shared by both clients
VARIABLES
  screen,        \* web: the section shown, "A" auth, "L" lobby, "C" chat;
                 \* iOS: AppState.screen, "auth", "lobby", "chat"
  open,          \* peer connections created and not closed
  ice,           \* iceConnectionState of every peer connection slot
  iceRestarts,
  tasks,         \* suspended continuations and pending completion handlers
  timers,        \* pending timer callbacks, by kind
  out,           \* the events the last step emitted on the socket, in order;
                 \* under the probe "order" also "close" for a connection closed
  offers,        \* offers emitted in the current match cycle
  answers,       \* answers emitted in the current match cycle
  attempts,      \* restart attempts made on the current link since its creation
  graceFor,      \* under the probe "timer": for each pending grace timer, oldest
                 \* first, the link it was set for, 0 once that link is closed
  failRun,       \* `failed` reports of the latest link since it was last healthy
  probe          \* which history is recorded: "link" (attempts, failRun),
                 \* "wire" (offers, answers), "order" (closes, in `out`),
                 \* "notify" (calls of setConnected, in `out`), "ignore"
                 \* (signalling events dropped, in `out`), "timer" (graceFor)
                 \* or "none"; it
                 \* never changes

\* ------------------------------------------------------------- web state
VARIABLES
  io_,           \* "null", or the socket: "up" (connected) / "down"
  sockets,       \* sockets made by io() that disconnect() has not yet ended
  pc,            \* the peer connection the client references, 0 = null
  hasLD,         \* open peer connections whose localDescription is set
  localStream,   \* the stream the client references, 0 = null
  live,          \* capture streams with a live track
  ended,         \* live streams one track of which has ended
  matched,
  peerInitiator,
  retryBtn,      \* the "Retry Camera" button is displayed
  camOn,
  micOn,
  videoOn,       \* streams in use whose video tracks are enabled
  audioOn        \* streams in use whose audio tracks, if any, are enabled

\* ------------------------------------------------------------- iOS state
VARIABLES
  socket,         \* SocketService.socket: "nil", or "up" (connected) / "down"
  peerConnection, \* WebRTCService.peerConnection, 0 = nil
  isInitiator,
  isMatched,
  isSearching,
  capture         \* the local media of WebRTCService: "nil", "starting"
                  \* (startCapture pending) or "on" (localVideoTrack set)

\* ------------------------------------- state of the text-chat client only
\* The text-chat client (src/static/js/app.js) has the globals io_, pc,
\* matched, iceRestarts and peerInitiator of the video client and these:
VARIABLES
  dc,            \* the data channel the client references: the link it belongs
                 \* to, 0 = null
  dcState,       \* readyState of dc: "connecting", "open", "closed"; "none"
                 \* while dc is null
  inputOn,       \* the message box and the send button are enabled
  findNew,       \* a "Find New Stranger" button is in the message list
  msgQueue,      \* the chat messages queued, oldest first
  sent,          \* the chat messages passed to dc.send, in order, each with the
                 \* match cycle it was sent in
  written,       \* chat messages submitted so far
  cycle          \* setupPeer calls so far: the match cycle, one per partner

shared  == <<screen, open, ice, iceRestarts, tasks, timers, out, offers, answers,
             attempts, failRun, graceFor, probe>>
webOnly == <<io_, sockets, pc, hasLD, localStream, live, ended, matched, peerInitiator, retryBtn,
             camOn, micOn, videoOn, audioOn>>
iosOnly == <<socket, peerConnection, isInitiator, isMatched, isSearching, capture>>
textOnly == <<dc, dcState, inputOn, findNew, msgQueue, sent, written, cycle>>
vars    == <<shared, webOnly, iosOnly, textOnly>>

\* The state as one value, for handlers that are sequences of assignments.
\* `over` is set when a handler would exceed a bound, `threw` when an
\* exception leaves it uncaught.
Cur ==
  [screen |-> screen, io_ |-> io_, sockets |-> sockets, pc |-> pc, open |-> open,
   ice |-> ice, hasLD |-> hasLD, localStream |-> localStream, live |-> live,
   ended |-> ended,
   matched |-> matched, iceRestarts |-> iceRestarts, peerInitiator |-> peerInitiator,
   retryBtn |-> retryBtn, camOn |-> camOn, micOn |-> micOn,
   videoOn |-> videoOn, audioOn |-> audioOn, tasks |-> tasks, timers |-> timers, out |-> <<>>,
   offers |-> offers, answers |-> answers,
   attempts |-> attempts, failRun |-> failRun, graceFor |-> graceFor,
   dc |-> dc, dcState |-> dcState, inputOn |-> inputOn, findNew |-> findNew,
   msgQueue |-> msgQueue, sent |-> sent, written |-> written, cycle |-> cycle,
   probe |-> probe, over |-> FALSE, threw |-> FALSE]

Commit(s) ==
  /\ ~s.over
  /\ screen' = s.screen /\ io_' = s.io_ /\ pc' = s.pc /\ open' = s.open
  /\ sockets' = s.sockets /\ ended' = s.ended \cap s.live
  /\ ice' = s.ice /\ hasLD' = s.hasLD /\ probe' = probe
  /\ localStream' = s.localStream /\ live' = s.live /\ matched' = s.matched
  /\ iceRestarts' = s.iceRestarts /\ peerInitiator' = s.peerInitiator
  /\ retryBtn' = s.retryBtn /\ tasks' = s.tasks /\ timers' = s.timers
  /\ out' = s.out /\ offers' = s.offers /\ answers' = s.answers
  /\ attempts' = s.attempts /\ failRun' = s.failRun /\ graceFor' = s.graceFor
  /\ camOn' = s.camOn /\ micOn' = s.micOn
  /\ videoOn' = s.videoOn \cap (s.live \cup {s.localStream})
  /\ audioOn' = s.audioOn \cap (s.live \cup {s.localStream})
  /\ dc' = s.dc /\ dcState' = s.dcState /\ inputOn' = s.inputOn
  /\ findNew' = s.findNew /\ msgQueue' = s.msgQueue /\ sent' = s.sent
  /\ written' = s.written /\ cycle' = s.cycle
  /\ UNCHANGED iosOnly

Task(k, who, init, rung, st, p) ==
  [k |-> k, who |-> who, init |-> init, rung |-> rung, st |-> st, p |-> p]

Min(a, b) == IF a < b THEN a ELSE b

\* The text-chat client before its first match.
NoChat ==
  /\ dc = 0 /\ dcState = "none" /\ inputOn = FALSE /\ findNew = FALSE
  /\ msgQueue = <<>> /\ sent = <<>> /\ written = 0 /\ cycle = 0

\* The page has loaded and no user is signed in.
Loaded ==
  /\ NoChat
  /\ screen = "A" /\ io_ = "null" /\ sockets = 0 /\ pc = 0 /\ open = {}
  /\ ice = [p \in PeerIds |-> "closed"] /\ hasLD = {}
  /\ localStream = 0 /\ live = {} /\ ended = {} /\ matched = FALSE /\ iceRestarts = 0
  /\ peerInitiator = FALSE /\ retryBtn = FALSE /\ tasks = {}
  /\ camOn = TRUE /\ micOn = TRUE /\ videoOn = {} /\ audioOn = {}
  /\ timers = [k \in {"grace", "q", "s"} |-> 0]
  /\ out = <<>> /\ offers = 0 /\ answers = 0 /\ attempts = 0 /\ failRun = 0
  /\ graceFor = <<>>
  /\ socket = "nil" /\ peerConnection = 0 /\ isInitiator = FALSE
  /\ isMatched = FALSE /\ isSearching = FALSE /\ capture = "nil"

Init == Loaded /\ probe = "none"

\* ---------------------------------------------------------- web helpers
\* A bound of the model would be exceeded: the step is not taken.
Over(s) == [s EXCEPT !.over = TRUE]

\* io_.emit(k) outside try/catch: a TypeError when io_ is null.
emit(s, k) ==
  IF s.io_ = "null" THEN [s EXCEPT !.threw = TRUE]
  ELSE [s EXCEPT !.out = Append(@, k)]

\* setTimeout(callback, delay); `k` names the callback.
setTimeout(s, k) ==
  IF s.timers[k] >= (IF k = "grace" THEN MaxGrace ELSE MaxTimers) THEN Over(s)
  ELSE [s EXCEPT !.timers[k] = @ + 1]

\* The 3000 ms timer of the `disconnected` branch, set while p is the link.
startGrace(s, p) ==
  LET s1 == setTimeout(s, "grace") IN
  IF s.probe = "timer" /\ ~s1.over THEN [s1 EXCEPT !.graceFor = Append(@, p)]
  ELSE s1

\* The pending grace timers once link p is closed.
closedLink(q, p) == [i \in 1..Len(q) |-> IF q[i] = p THEN 0 ELSE q[i]]

\* An async function suspends at an `await`.
suspend(s, t) ==
  IF t \in s.tasks \/ Cardinality(s.tasks) >= MaxTasks THEN Over(s)
  ELSE [s EXCEPT !.tasks = @ \cup {t}]

showStatus(s, showRetry) == [s EXCEPT !.retryBtn = showRetry]

hideStatus(s) == [s EXCEPT !.retryBtn = FALSE]

stopCamera(s) ==
  IF s.localStream # 0
  THEN [s EXCEPT !.live = @ \ {s.localStream}, !.localStream = 0]
  ELSE s

\* closePeer without `pc=null` after pc.close().
closePeer_KeepsRef(s) ==
  IF s.pc # 0
  THEN [s EXCEPT !.open = @ \ {s.pc}, !.ice[s.pc] = "closed",
                 !.out = IF s.probe = "order" THEN Append(@, "close") ELSE @,
                 !.hasLD = @ \ {s.pc},
                 !.tasks = {t \in @ : t.p # s.pc},
                 !.iceRestarts = 0, !.attempts = 0]
  ELSE [s EXCEPT !.iceRestarts = 0]

\* pc.close() ends every pending operation of the connection unsettled.
closePeer(s) ==
  IF s.pc # 0
  THEN [s EXCEPT !.open = @ \ {s.pc}, !.ice[s.pc] = "closed",
                 !.out = IF s.probe = "order" THEN Append(@, "close") ELSE @,
                 !.hasLD = @ \ {s.pc},
                 !.tasks = {t \in @ : t.p # s.pc},
                 !.graceFor = closedLink(@, s.pc),
                 !.pc = 0, !.iceRestarts = 0, !.attempts = 0]
  ELSE [s EXCEPT !.iceRestarts = 0]

setWait(s) ==
  closePeer(showStatus([s EXCEPT !.matched = FALSE, !.iceRestarts = 0], FALSE))

setConnected(s) ==
  hideStatus([s EXCEPT !.matched = TRUE, !.iceRestarts = 0,
                       !.out = IF s.probe = "notify" THEN Append(@, "connected")
                               ELSE @])

\* setDC without its closePeer() call.
setDC_KeepsPeer(s) == [s EXCEPT !.matched = FALSE]

setDC(s) == closePeer([s EXCEPT !.matched = FALSE])

tryIceRestart(s) ==
  IF s.pc = 0 \/ s.io_ = "null" THEN s
  ELSE IF s.peerInitiator
       THEN suspend(s, Task("restart", "", FALSE, 0, "create", s.pc))
       ELSE s

\* iceRestarts++; tryIceRestart()
restartAttempt(s) ==
  tryIceRestart([s EXCEPT !.iceRestarts = @ + 1,
                          !.attempts = IF s.probe = "link" THEN Min(@ + 1, MaxCount)
                                       ELSE @])

\* setupPeer from `pc=new RTCPeerConnection(RTC_CONFIG)` on.
newPeer(s, isInit) ==
  LET free == PeerIds \ s.open IN
  IF free = {} THEN Over(s)
  ELSE LET p  == CHOOSE x \in free : \A y \in free : x <= y
           s1 == [s EXCEPT !.pc = p, !.open = @ \cup {p}, !.ice[p] = "new",
                           !.attempts = 0, !.failRun = 0]
       IN IF isInit THEN suspend(s1, Task("offer1", "", FALSE, 0, "create", p))
          ELSE s1

\* The callers of getCamera with $("go").onclick joining the queue whether or
\* not a stream was obtained.
afterCamera_JoinsAnyway(s, who, isInit, stream) ==
  IF who = "setup"
  THEN IF stream = 0 THEN showStatus(s, TRUE) ELSE newPeer(s, isInit)
  ELSE emit(showStatus(s, stream = 0), "q")

\* What the caller of getCamera does with its result (0 = null).
afterCamera(s, who, isInit, stream) ==
  IF who = "setup"
  THEN IF stream = 0 THEN showStatus(s, TRUE) ELSE newPeer(s, isInit)
  ELSE IF stream = 0 THEN showStatus(s, TRUE)
       ELSE emit(showStatus(s, FALSE), "q")

\* getCamera up to its first await, or through when the stream is alive.
getCamera(s, who, isInit) ==
  IF s.localStream # 0 /\ s.localStream \in s.live
  THEN afterCamera(s, who, isInit, s.localStream)
  ELSE suspend([s EXCEPT !.localStream = 0], Task("cam", who, isInit, 0, "gum", 0))

setupPeer(s, isInit) == getCamera(closePeer(s), "setup", isInit)

\* oniceconnectionstatechange with `iceRestarts<=MAX_ICE_RESTARTS` as the
\* test of the remaining budget.
onIceStateChange_OneMore(s) ==
  IF s.pc = 0 THEN s
  ELSE LET st == s.ice[s.pc] IN
       IF st = "disconnected" THEN startGrace(showStatus(s, FALSE), s.pc)
       ELSE IF st = "failed"
            THEN IF s.iceRestarts <= MAX_ICE_RESTARTS
                 THEN restartAttempt(showStatus(s, FALSE))
                 ELSE setTimeout(showStatus(setDC(s), FALSE), "s")
            ELSE IF st \in {"connected", "completed"} THEN setConnected(s)
                 ELSE s

\* pc.oniceconnectionstatechange
onIceStateChange(s) ==
  IF s.pc = 0 THEN s
  ELSE LET st == s.ice[s.pc] IN
       IF st = "disconnected" THEN startGrace(showStatus(s, FALSE), s.pc)
       ELSE IF st = "failed"
            THEN IF s.iceRestarts < MAX_ICE_RESTARTS
                 THEN restartAttempt(showStatus(s, FALSE))
                 ELSE setTimeout(showStatus(setDC(s), FALSE), "s")
            ELSE IF st \in {"connected", "completed"} THEN setConnected(s)
                 ELSE s

\* pc.onconnectionstatechange
onConnStateChange(s) ==
  IF s.pc = 0 THEN s
  ELSE IF s.ice[s.pc] = "failed" /\ s.iceRestarts >= MAX_ICE_RESTARTS
       THEN setTimeout(showStatus(setDC(s), FALSE), "s")
       ELSE s

\* ------------------------------------------------------ web user actions
\* connectSocket without its first line `if(io_) return`.
connectSocket_NoGuard(s) ==
  IF s.sockets >= MaxSockets THEN Over(s)
  ELSE [s EXCEPT !.io_ = "down", !.sockets = @ + 1]

\* connectSocket: io() makes a socket, which then connects by itself
connectSocket(s) ==
  IF s.io_ # "null" THEN s
  ELSE IF s.sockets >= MaxSockets THEN Over(s)
  ELSE [s EXCEPT !.io_ = "down", !.sockets = @ + 1]

\* `if(io_){io_.disconnect();io_=null}`
dropSocket(s) ==
  IF s.io_ = "null" THEN s ELSE [s EXCEPT !.io_ = "null", !.sockets = @ - 1]

\* enterLobby with a nickname set: show(L); connectSocket()
EnterLobby ==
  /\ screen = "A"
  /\ Commit(connectSocket([Cur EXCEPT !.screen = "L"]))

\* enterLobby called for a user who is already in: the response of a second
\* /api/profile request (the nickname submitted twice) or of /api/me after
\* the sign-in has completed.
EnterLobbyAgain ==
  /\ screen \in {"L", "C"}
  /\ Commit(connectSocket([Cur EXCEPT !.screen = "L"]))

\* $("go").onclick
Go ==
  /\ screen = "L"
  /\ Commit(getCamera(showStatus([Cur EXCEPT !.screen = "C"], FALSE), "go", FALSE))

\* $("sk").onclick releasing the camera as $("dc").onclick does.
Skip_ReleasesMedia ==
  /\ screen = "C"
  /\ Commit(emit(showStatus(stopCamera(setWait(Cur)), FALSE), "s"))

\* $("sk").onclick
Skip ==
  /\ screen = "C"
  /\ Commit(emit(showStatus(setWait(Cur), FALSE), "s"))

\* $("dc").onclick
Disconnect ==
  /\ screen = "C"
  /\ LET s1 == emit(Cur, "s") IN
     IF s1.threw THEN Commit(s1)
     ELSE Commit([stopCamera(setDC(s1)) EXCEPT !.screen = "L"])

\* retryCamera, the onclick of the retry button
RetryCamera ==
  /\ screen = "C" /\ retryBtn
  /\ Commit(getCamera([showStatus(Cur, FALSE) EXCEPT !.localStream = 0], "retry", FALSE))

\* $("logout").onclick up to `await fetch("/api/logout")`
LogoutClick ==
  /\ screen = "L"
  /\ Commit(suspend(Cur, Task("logout", "", FALSE, 0, "fetch", 0)))

\* $("logout").onclick after the fetch
LogoutDone ==
  \E t \in tasks :
    /\ t.k = "logout"
    /\ Commit([closePeer(stopCamera(dropSocket([Cur EXCEPT !.tasks = @ \ {t}])))
                 EXCEPT !.screen = "A"])

\* $("del-acct").onclick, confirmed twice, up to `await api(...)`
DeleteClick ==
  /\ screen = "L"
  /\ Commit(suspend(Cur, Task("delete", "", FALSE, 0, "fetch", 0)))

\* $("del-acct").onclick after the request: the account is deleted (ok) or not
DeleteDone(ok) ==
  \E t \in tasks :
    /\ t.k = "delete"
    /\ LET s0 == [Cur EXCEPT !.tasks = @ \ {t}] IN
       Commit(IF ok THEN [closePeer(stopCamera(dropSocket(s0))) EXCEPT !.screen = "A"]
              ELSE s0)

\* camBtn.onclick turning the camera off with track.stop().
CamToggle_StopsTrack ==
  /\ screen = "C"
  /\ Commit(IF localStream = 0 THEN Cur
            ELSE [Cur EXCEPT !.camOn = ~camOn,
                             !.live = IF camOn THEN @ \ {localStream} ELSE @,
                             !.videoOn = IF ~camOn THEN @ \cup {localStream}
                                         ELSE @ \ {localStream}])

\* camBtn.onclick
CamToggle ==
  /\ screen = "C"
  /\ Commit(IF localStream = 0 THEN Cur
            ELSE [Cur EXCEPT !.camOn = ~camOn,
                             !.videoOn = IF ~camOn THEN @ \cup {localStream}
                                         ELSE @ \ {localStream}])

\* micBtn.onclick
MicToggle ==
  /\ screen = "C"
  /\ Commit(IF localStream = 0 THEN Cur
            ELSE [Cur EXCEPT !.micOn = ~micOn,
                             !.audioOn = IF ~micOn THEN @ \cup {localStream}
                                         ELSE @ \ {localStream}])

\* -------------------------------------------------- web channel events
\* the socket connects or reconnects: io_.on("connect"), io_.on("reconnect")
SocketUp ==
  /\ io_ = "down"
  /\ Commit(IF matched THEN hideStatus([Cur EXCEPT !.io_ = "up"])
            ELSE [Cur EXCEPT !.io_ = "up"])

\* io_.on("disconnect") ending the chat as `pd` does.
SocketDown_EndsChat ==
  /\ io_ = "up"
  /\ Commit(IF matched THEN showStatus(setDC([Cur EXCEPT !.io_ = "down"]), FALSE)
            ELSE [Cur EXCEPT !.io_ = "down"])

\* io_.on("disconnect")
SocketDown ==
  /\ io_ = "up"
  /\ Commit(IF matched THEN showStatus([Cur EXCEPT !.io_ = "down"], FALSE)
            ELSE [Cur EXCEPT !.io_ = "down"])

\* io_.on("force_logout") without `io_=null` after io_.disconnect().
ForceLogout_KeepsChannel ==
  /\ io_ = "up"
  /\ Commit([closePeer(stopCamera([Cur EXCEPT !.io_ = "down", !.sockets = @ - 1]))
              EXCEPT !.screen = "A"])

\* io_.on("force_logout")
ForceLogout ==
  /\ io_ = "up"
  /\ Commit([closePeer(stopCamera(dropSocket(Cur))) EXCEPT !.screen = "A"])

\* io_.on("w")
Waiting ==
  /\ io_ = "up"
  /\ Commit(setWait(Cur))

\* io_.on("m"); a match cycle begins
Matched(isInit) ==
  /\ io_ = "up"
  /\ Commit(setupPeer([showStatus(Cur, FALSE) EXCEPT
                         !.peerInitiator = isInit,
                         !.offers = 0, !.answers = 0], isInit))

\* `if(!pc) return`, `catch(e){}` in the handlers of offer, answer and ice;
\* `guard ... else { return }` and the completion handlers that do nothing
\* on an error in handleOffer, handleAnswer and handleICE.
ignore(s) ==
  IF s.probe = "ignore" THEN [s EXCEPT !.out = Append(@, "ignored")] ELSE s

\* The handler of io_.on("offer") up to its first await.
onOffer(s) ==
  IF s.pc = 0 THEN ignore(s)
  ELSE suspend(s, Task("ans", "", FALSE, 0, "setRemote", s.pc))

\* io_.on("offer") answering before the remote description is applied.
OfferEvent_AnswersAtOnce ==
  /\ io_ = "up"
  /\ Commit(IF pc = 0 THEN Cur
            ELSE suspend(emit(Cur, "answer"), Task("ans", "", FALSE, 0, "setRemote", pc)))

\* io_.on("offer") up to `await pc.setRemoteDescription(data)`
OfferEvent ==
  /\ io_ = "up"
  /\ Commit(onOffer(Cur))

\* io_.on("answer"), io_.on("ice"): the only effect is inside the connection;
\* `ok` is whether setRemoteDescription / addIceCandidate accepts the data.
AnswerOrIceEvent ==
  /\ io_ = "up"
  /\ \E ok \in BOOLEAN : Commit(IF pc = 0 \/ ~ok THEN ignore(Cur) ELSE Cur)

\* io_.on("pd")
PartnerLeft ==
  /\ io_ = "up"
  /\ Commit(setTimeout(showStatus(setDC(Cur), FALSE), "q"))

\* the callback of the 500 ms timers: if(io_&&io_.connected) io_.emit(k)
RequeueTimer(k) ==
  /\ timers[k] > 0
  /\ LET s1 == [Cur EXCEPT !.timers[k] = @ - 1] IN
     Commit(IF io_ = "up" THEN emit(s1, k) ELSE s1)

\* ------------------------------------------------ web media completions
\* The loop over `attempts` in getCamera: the first of the constraint sets
\* 1..Rungs, in order, that the device grants (`grants`), 0 when none is.
ladder(grants) ==
  IF grants = {} THEN 0 ELSE CHOOSE r \in grants : \A q \in grants : r <= q

\* The getUserMedia calls of getCamera settle: the stream of the first rung
\* that is granted becomes localStream, or every rung has failed.
GumDone(grants) ==
  \E t \in tasks :
    /\ t.k = "cam" /\ t.st = "gum"
    /\ LET s0   == [Cur EXCEPT !.tasks = @ \ {t}]
           free == StreamIds \ (live \cup {localStream})
       IN IF ladder(grants) # 0
          THEN /\ free # {}
               /\ LET x == CHOOSE y \in free : \A z \in free : y <= z IN
                  Commit(suspend([s0 EXCEPT !.localStream = x, !.live = @ \cup {x},
                                    !.videoOn = @ \cup {x},
                                    !.audioOn = @ \cup {x}],
                                 [t EXCEPT !.st = "play", !.rung = ladder(grants)]))
          ELSE Commit(afterCamera(s0, t.who, t.init, 0))

\* `await lv.play().catch(()=>{})` settles; getCamera returns localStream
PlayDone ==
  \E t \in tasks :
    /\ t.k = "cam" /\ t.st = "play"
    /\ Commit(afterCamera([Cur EXCEPT !.tasks = @ \ {t}], t.who, t.init, localStream))

\* the device is revoked: the tracks of a stream end
DeviceRevoked ==
  \E x \in live : Commit([Cur EXCEPT !.live = @ \ {x}])

\* one device is revoked: one track of a stream ends (readyState "ended")
\* and another track of it stays live
TrackEnded ==
  \E x \in live \ ended : Commit([Cur EXCEPT !.ended = @ \cup {x}])

\* ------------------------------------------- web negotiation completions
\* io_.emit(k, pc.localDescription.toJSON()) inside try/catch or before .catch
emitDescription(s, k) ==
  IF s.io_ = "null" \/ s.pc = 0 \/ s.pc \notin s.hasLD THEN s
  ELSE IF s.probe # "wire" THEN [s EXCEPT !.out = Append(@, k)]
  ELSE IF k = "offer"
       THEN [s EXCEPT !.out = Append(@, k), !.offers = Min(@ + 1, MaxSent)]
       ELSE [s EXCEPT !.out = Append(@, k), !.answers = Min(@ + 1, MaxSent)]

\* A step of `createOffer -> setLocalDescription -> emit("offer")`, in
\* setupPeer (k = "offer1") and in tryIceRestart (k = "restart").
OfferStep(ok) ==
  \E t \in tasks :
    /\ t.k \in {"offer1", "restart"} /\ t.p \in open
    /\ LET s0 == [Cur EXCEPT !.tasks = @ \ {t}] IN
       IF ~ok THEN Commit(s0)
       ELSE IF t.st = "create"
            THEN Commit(IF pc = t.p THEN suspend(s0, [t EXCEPT !.st = "setLocal"])
                        ELSE s0)
            ELSE Commit(emitDescription([s0 EXCEPT !.hasLD = @ \cup {t.p}], "offer"))

\* The offer handler sending its local description as an `offer` event.
AnswerStep_EmitsOffer(ok) ==
  \E t \in tasks :
    /\ t.k = "ans" /\ t.p \in open
    /\ LET s0 == [Cur EXCEPT !.tasks = @ \ {t}] IN
       IF ~ok THEN Commit(s0)
       ELSE IF t.st = "setRemote"
            THEN Commit(IF pc = t.p THEN suspend(s0, [t EXCEPT !.st = "create"])
                        ELSE s0)
            ELSE IF t.st = "create"
                 THEN Commit(IF pc = t.p THEN suspend(s0, [t EXCEPT !.st = "setLocal"])
                             ELSE s0)
                 ELSE Commit(emitDescription([s0 EXCEPT !.hasLD = @ \cup {t.p}], "offer"))

\* io_.on("offer") without its try/catch taking effect: a rejected step is
\* followed by the next one.
AnswerStep_GoesOn(ok) ==
  \E t \in tasks :
    /\ t.k = "ans" /\ t.p \in open
    /\ LET s0 == [Cur EXCEPT !.tasks = @ \ {t}]
           s1 == IF ok THEN s0 ELSE ignore(s0) IN
       IF t.st = "setRemote"
       THEN Commit(IF pc = t.p THEN suspend(s1, [t EXCEPT !.st = "create"])
                   ELSE s1)
       ELSE IF t.st = "create"
            THEN Commit(IF pc = t.p THEN suspend(s1, [t EXCEPT !.st = "setLocal"])
                        ELSE s1)
            ELSE Commit(emitDescription([s1 EXCEPT !.hasLD = @ \cup {t.p}], "answer"))

\* A step of io_.on("offer"):
\* setRemoteDescription -> createAnswer -> setLocalDescription -> emit("answer")
AnswerStep(ok) ==
  \E t \in tasks :
    /\ t.k = "ans" /\ t.p \in open
    /\ LET s0 == [Cur EXCEPT !.tasks = @ \ {t}] IN
       IF ~ok THEN Commit(ignore(s0))
       ELSE IF t.st = "setRemote"
            THEN Commit(IF pc = t.p THEN suspend(s0, [t EXCEPT !.st = "create"])
                        ELSE s0)
            ELSE IF t.st = "create"
                 THEN Commit(IF pc = t.p THEN suspend(s0, [t EXCEPT !.st = "setLocal"])
                             ELSE s0)
                 ELSE Commit(emitDescription([s0 EXCEPT !.hasLD = @ \cup {t.p}], "answer"))

\* ------------------------------------------------- web peer connection
\* pc.ontrack of connection p, with a stream
Track ==
  \E p \in open : Commit(setConnected(Cur))

\* The ICE agent of connection p changes state: oniceconnectionstatechange
\* fires and then, on a platform that has RTCPeerConnection.connectionState
\* (`both`), onconnectionstatechange when the state is "failed".  The
\* connection state is "failed" exactly when the ICE state is.
IceChange(st, both) ==
  \E p \in open :
    /\ st # ice[p]
    /\ both => st = "failed"
    /\ LET rec == probe = "link" /\ p = pc
           s0 == [Cur EXCEPT !.ice[p] = st,
                    !.failRun = IF rec /\ st = "failed" THEN Min(@ + 1, MaxCount)
                                ELSE IF rec /\ st \in {"connected", "completed"} THEN 0
                                ELSE @]
           s1 == onIceStateChange(s0)
       IN Commit(IF both THEN onConnStateChange(s1) ELSE s1)

\* the callback of the 3000 ms timer set on `disconnected`
GraceTimer ==
  /\ timers["grace"] > 0
  /\ LET s0 == [Cur EXCEPT !.timers["grace"] = @ - 1,
                           !.graceFor = IF @ = <<>> THEN @ ELSE Tail(@)] IN
     Commit(IF pc # 0 /\ ice[pc] = "disconnected" /\ iceRestarts < MAX_ICE_RESTARTS
            THEN restartAttempt(s0) ELSE s0)

\* ------------------------------------------- the web client's session
Next ==
  \/ EnterLobby \/ Go \/ Skip \/ Disconnect \/ RetryCamera
  \/ LogoutClick \/ LogoutDone
  \/ SocketUp \/ SocketDown \/ ForceLogout \/ Waiting
  \/ \E i \in BOOLEAN : Matched(i)
  \/ OfferEvent \/ AnswerOrIceEvent \/ PartnerLeft
  \/ RequeueTimer("q")
  \/ \E grants \in {{}, 1..Rungs, {Rungs}} : GumDone(grants)
  \/ PlayDone \/ DeviceRevoked
  \/ \E ok \in BOOLEAN : OfferStep(ok)
  \/ \E ok \in BOOLEAN : AnswerStep(ok)
  \/ Track

Spec == Init /\ [][Next]_vars

\* ------------------------------------------- the web client's channel
\* Signing in, the lobby, the camera of Start, and the ways out.
NextChannel ==
  \/ EnterLobby \/ EnterLobbyAgain
  \/ LogoutClick \/ LogoutDone
  \/ DeleteClick \/ \E ok \in BOOLEAN : DeleteDone(ok)
  \/ SocketUp \/ SocketDown \/ ForceLogout
  \/ Go \/ Disconnect
  \/ \E grants \in {{}, 1..Rungs} : GumDone(grants)
  \/ PlayDone

InitChannel == Loaded /\ probe = "none"

SpecChannel == InitChannel /\ [][NextChannel]_vars

\* ------------------------------------------------ the link, once queued
\* The user is signed in and has pressed Start; the camera was granted.
Started ==
  /\ NoChat
  /\ screen = "C" /\ io_ = "up" /\ sockets = 1 /\ pc = 0 /\ open = {}
  /\ ice = [p \in PeerIds |-> "closed"] /\ hasLD = {}
  /\ localStream = 1 /\ live = {1} /\ ended = {} /\ matched = FALSE /\ iceRestarts = 0
  /\ peerInitiator = FALSE /\ retryBtn = FALSE /\ tasks = {}
  /\ camOn = TRUE /\ micOn = TRUE /\ videoOn = {1} /\ audioOn = {1}
  /\ timers = [k \in {"grace", "q", "s"} |-> 0]
  /\ out = <<"q">> /\ offers = 0 /\ answers = 0 /\ attempts = 0 /\ failRun = 0
  /\ graceFor = <<>>
  /\ socket = "nil" /\ peerConnection = 0 /\ isInitiator = FALSE
  /\ isMatched = FALSE /\ isSearching = FALSE /\ capture = "nil"

NextLink ==
  \/ Skip \/ Waiting
  \/ \E i \in BOOLEAN : Matched(i)
  \/ OfferEvent \/ AnswerOrIceEvent \/ PartnerLeft
  \/ \E k \in {"q", "s"} : RequeueTimer(k)
  \/ \E ok \in BOOLEAN : OfferStep(ok)
  \/ \E ok \in BOOLEAN : AnswerStep(ok)
  \/ Track
  \/ \E st \in IceStates \ {"closed"}, both \in BOOLEAN : IceChange(st, both)
  \/ GraceTimer

InitLink == Started /\ probe = "link"

SpecLink == InitLink /\ [][NextLink]_vars

InitWire == Started /\ probe = "wire"

SpecWire == InitWire /\ [][NextLink]_vars

\* The chat screen with each call of setConnected recorded among the emits.
InitNotify == Started /\ probe = "notify"

SpecNotify == InitNotify /\ [][NextLink]_vars

\* The chat screen with the link of each pending grace timer recorded.
InitTimer == Started /\ probe = "timer"

SpecTimer == InitTimer /\ [][NextLink]_vars

\* The chat screen with devices revoked during the chat.
NextRevoke ==
  \/ Skip \/ Waiting \/ PartnerLeft
  \/ \E i \in BOOLEAN : Matched(i)
  \/ RequeueTimer("q")
  \/ \E grants \in {{}, 1..Rungs, {Rungs}} : GumDone(grants)
  \/ PlayDone \/ DeviceRevoked \/ TrackEnded
  \/ \E ok \in BOOLEAN : OfferStep(ok)
  \/ Track

InitRevoke == Started /\ probe = "none"

SpecRevoke == InitRevoke /\ [][NextRevoke]_vars

\* The camera and microphone buttons with the stream released and acquired
\* again: disconnect then start, and a revoked device.
NextFlags ==
  \/ CamToggle \/ MicToggle
  \/ Disconnect \/ Go \/ Skip
  \/ \E i \in BOOLEAN : Matched(i)
  \/ \E grants \in {{}, 1..Rungs, {Rungs}} : GumDone(grants)
  \/ PlayDone \/ DeviceRevoked

InitFlags == Started /\ probe = "none"

SpecFlags == InitFlags /\ [][NextFlags]_vars

\* The chat screen with the channel going down and coming back.
NextOutage == NextLink \/ SocketUp \/ SocketDown

InitOutage == Started /\ probe = "none"

SpecOutage == InitOutage /\ [][NextOutage]_vars

\* The chat screen with each dropped signalling event recorded among the emits.
InitIgnore == Started /\ probe = "ignore"

SpecIgnore == InitIgnore /\ [][NextLink]_vars

\* The chat screen with closePeer's pc.close() recorded among the emits.
NextOrder == NextLink \/ Disconnect

InitOrder == Started /\ probe = "order"

SpecOrder == InitOrder /\ [][NextOrder]_vars

\* ------------------------------------ the web client's media in a chat
NextMedia ==
  \/ CamToggle \/ MicToggle
  \/ Skip \/ Waiting
  \/ \E i \in BOOLEAN : Matched(i)
  \/ OfferEvent \/ PartnerLeft
  \/ \E k \in {"q", "s"} : RequeueTimer(k)
  \/ \E ok \in BOOLEAN : OfferStep(ok)
  \/ \E ok \in BOOLEAN : AnswerStep(ok)
  \/ Track
  \/ \E st \in IceStates \ {"closed"} : IceChange(st, TRUE) \/ IceChange(st, FALSE)
  \/ GraceTimer

InitMedia == Started /\ probe = "none"

SpecMedia == InitMedia /\ [][NextMedia]_vars

\* ============================================================ iOS client
\* The delegate callbacks of RTCPeerConnection and the completion handlers
\* of its operations are taken one at a time, like the handlers of the main
\* actor.  A completion handler of an operation that was in flight when its
\* connection was closed may still be delivered; its task is then kept with
\* p = 0.  A description or a request made for one connection is rejected
\* by any other connection.
CurI ==
  [screen |-> screen, socket |-> socket, peerConnection |-> peerConnection,
   open |-> open, ice |-> ice, isInitiator |-> isInitiator,
   isMatched |-> isMatched, isSearching |-> isSearching, capture |-> capture,
   iceRestarts |-> iceRestarts, tasks |-> tasks, timers |-> timers, out |-> <<>>,
   offers |-> offers, answers |-> answers, attempts |-> attempts,
   failRun |-> failRun, graceFor |-> graceFor, probe |-> probe, over |-> FALSE]

CommitI(s) ==
  /\ ~s.over
  /\ screen' = s.screen /\ socket' = s.socket /\ peerConnection' = s.peerConnection
  /\ open' = s.open /\ ice' = s.ice /\ isInitiator' = s.isInitiator
  /\ isMatched' = s.isMatched /\ isSearching' = s.isSearching
  /\ capture' = s.capture /\ iceRestarts' = s.iceRestarts /\ tasks' = s.tasks
  /\ timers' = s.timers /\ out' = s.out /\ offers' = s.offers
  /\ answers' = s.answers /\ attempts' = s.attempts /\ failRun' = s.failRun
  /\ graceFor' = s.graceFor
  /\ probe' = probe
  /\ UNCHANGED webOnly
  /\ UNCHANGED textOnly

\* socket?.emit(k): nothing is sent unless the socket exists and is connected.
socketEmit(s, k) ==
  IF s.socket # "up" THEN s
  ELSE IF s.probe # "wire" \/ k \notin {"offer", "answer"}
       THEN [s EXCEPT !.out = Append(@, k)]
  ELSE IF k = "offer"
       THEN [s EXCEPT !.out = Append(@, k), !.offers = Min(@ + 1, MaxSent)]
       ELSE [s EXCEPT !.out = Append(@, k), !.answers = Min(@ + 1, MaxSent)]

\* A block handed to the main queue or the main actor, or a pending
\* completion handler; a block that is already pending is not added twice.
post(s, t) ==
  IF t \in s.tasks THEN s
  ELSE IF Cardinality(s.tasks) >= MaxTasks THEN Over(s)
  ELSE [s EXCEPT !.tasks = @ \cup {t}]

Hop(what) == Task("hop", what, FALSE, 0, "", 0)

\* WebRTCService.closePeer
WebRTCService_closePeer(s) ==
  IF s.peerConnection # 0
  THEN [s EXCEPT !.open = @ \ {s.peerConnection},
                 !.ice[s.peerConnection] = "closed",
                 !.out = IF s.probe = "order" THEN Append(@, "close") ELSE @,
                 !.tasks = {IF t.p = s.peerConnection THEN [t EXCEPT !.p = 0] ELSE t
                            : t \in @},
                 !.graceFor = closedLink(@, s.peerConnection),
                 !.peerConnection = 0, !.iceRestarts = 0, !.attempts = 0]
  ELSE [s EXCEPT !.iceRestarts = 0]

\* WebRTCService.cleanup
cleanup(s) == [WebRTCService_closePeer(s) EXCEPT !.capture = "nil"]

\* WebRTCService.setupPeer; createOffer up to the call of offer(for:)
WebRTCService_setupPeer(s, isInit) ==
  LET s1   == [WebRTCService_closePeer(s) EXCEPT !.isInitiator = isInit,
                                                 !.iceRestarts = 0]
      free == PeerIds \ s1.open
      p    == CHOOSE x \in free : \A y \in free : x <= y
      s2   == [s1 EXCEPT !.peerConnection = p, !.open = @ \cup {p},
                         !.ice[p] = "new", !.attempts = 0, !.failRun = 0]
  IN IF isInit THEN post(s2, Task("offer1", "", FALSE, 0, "create", p)) ELSE s2

\* WebRTCService.tryICERestart up to the call of offer(for:)
tryICERestart(s) ==
  IF s.isInitiator /\ s.peerConnection # 0
  THEN post(s, Task("restart", "", FALSE, 0, "create", s.peerConnection))
  ELSE s

\* iceRestarts += 1; tryICERestart()
restartAttemptI(s) ==
  tryICERestart([s EXCEPT !.iceRestarts = @ + 1,
                          !.attempts = IF s.probe = "link" THEN Min(@ + 1, MaxCount)
                                       ELSE @])

\* AppState.handlePartnerDisconnected
handlePartnerDisconnected(s) ==
  setTimeout([WebRTCService_closePeer([s EXCEPT !.isMatched = FALSE])
                EXCEPT !.isSearching = TRUE], "q")

\* ------------------------------------------------ the text-chat client
\* function clear(): ml.innerHTML="" removes the Find New button as well
clear(s) == [s EXCEPT !.msgQueue = <<>>, !.findNew = FALSE]

showFindNew(s) == [s EXCEPT !.findNew = TRUE]

\* closePeer of the text-chat client: dc.close(), dc=null, then the link.
\* The close event of a channel that was not yet closed is delivered later.
closePeerT(s) ==
  LET ev == Task("dcclose", "", FALSE, 0, "", 0)
      s1 == IF s.dc # 0 /\ s.dcState # "closed" /\ ev \notin s.tasks
            THEN suspend(s, ev) ELSE s
  IN closePeer([s1 EXCEPT !.dc = 0, !.dcState = "none"])

setWaitT(s) == closePeerT([s EXCEPT !.matched = FALSE, !.inputOn = FALSE])

setDCT(s) == closePeerT([s EXCEPT !.matched = FALSE, !.inputOn = FALSE])

\* A chat message {m: text}, with the match cycle it is written in, and a
\* typing indicator {t: 0 or 1}.
Msg(id, c) == [kind |-> "m", id |-> id, for |-> c]

Indicator == [kind |-> "t", id |-> 0, for |-> 0]

\* dc.send(JSON.stringify(obj)); chat messages are recorded in `sent`
dcTransmit(s, obj) ==
  IF obj.kind = "m"
  THEN [s EXCEPT !.sent = Append(@, [id |-> obj.id, for |-> obj.for, at |-> s.cycle])]
  ELSE s

\* flushQueue sending the first message and dropping the others.
flushQueue_FirstOnly(s) ==
  IF Len(s.msgQueue) > 0 /\ s.dc # 0 /\ s.dcState = "open"
  THEN dcTransmit([s EXCEPT !.msgQueue = <<>>], Head(s.msgQueue))
  ELSE s

RECURSIVE flushQueue(_)
flushQueue(s) ==
  IF Len(s.msgQueue) > 0 /\ s.dc # 0 /\ s.dcState = "open"
  THEN flushQueue(dcTransmit([s EXCEPT !.msgQueue = Tail(@)], Head(s.msgQueue)))
  ELSE s

setConn(s) ==
  flushQueue([s EXCEPT !.matched = TRUE, !.iceRestarts = 0, !.inputOn = TRUE])

dcSend(s, obj) ==
  IF s.dc # 0 /\ s.dcState = "open" THEN dcTransmit(s, obj)
  ELSE IF s.matched /\ obj.kind = "m"
       THEN [s EXCEPT !.msgQueue = Append(@, obj)]
       ELSE s

\* function send(), with some text in the box
send(s) ==
  IF ~s.matched THEN s
  ELSE IF s.written >= MaxMsgs THEN Over(s)
  ELSE dcSend(dcSend([s EXCEPT !.written = @ + 1], Msg(s.written + 1, s.cycle)),
              Indicator)

\* function typing() and the callback of its 1200 ms timer
typing(s) == IF ~s.matched THEN s ELSE dcSend(s, Indicator)

\* setupPeer of the text-chat client
setupPeerT(s, isInit) ==
  IF s.cycle >= MaxCycles THEN Over(s)
  ELSE LET s1 == newPeer([closePeerT(s) EXCEPT !.cycle = @ + 1], isInit) IN
       IF isInit /\ ~s1.over THEN [s1 EXCEPT !.dc = s1.pc, !.dcState = "connecting"]
       ELSE s1

\* ch.onclose
onDcClose(s) ==
  IF s.matched /\ s.iceRestarts >= MAX_ICE_RESTARTS THEN showFindNew(setDCT(s))
  ELSE s

\* pc.oniceconnectionstatechange of the text-chat client
onIceStateChangeT(s) ==
  IF s.pc = 0 THEN s
  ELSE LET st == s.ice[s.pc] IN
       IF st = "disconnected" THEN startGrace(s, s.pc)
       ELSE IF st = "failed"
            THEN IF s.iceRestarts < MAX_ICE_RESTARTS THEN restartAttempt(s)
                 ELSE showFindNew(setDCT(s))
            ELSE s

\* pc.onconnectionstatechange of the text-chat client
onConnStateChangeT(s) ==
  IF s.pc = 0 THEN s
  ELSE IF s.ice[s.pc] = "failed" /\ s.iceRestarts >= MAX_ICE_RESTARTS
       THEN showFindNew(setDCT(s))
       ELSE s

\* $("go").onclick
TextGo ==
  /\ screen = "L"
  /\ Commit(emit(setWaitT(clear([Cur EXCEPT !.screen = "C"])), "q"))

\* $("sk").onclick
TextSkip ==
  /\ screen = "C"
  /\ Commit(emit(setWaitT(clear(Cur)), "s"))

\* $("dc").onclick
TextDisconnect ==
  /\ screen = "C"
  /\ Commit([clear(setDCT(emit(Cur, "s"))) EXCEPT !.screen = "L"])

\* $("fn").onclick, the button showFindNew adds
TextFindNew ==
  /\ screen = "C" /\ findNew
  /\ Commit(emit(setWaitT(clear(Cur)), "q"))

\* se.onclick and Enter in the message box
Send ==
  /\ screen = "C" /\ inputOn
  /\ Commit(send(Cur))

\* mi.oninput
Typing ==
  /\ screen = "C" /\ inputOn
  /\ Commit(typing(Cur))

\* io_.on("w")
TextWaiting ==
  /\ io_ = "up"
  /\ Commit(setWaitT(Cur))

\* io_.on("m")
TextMatched(isInit) ==
  /\ io_ = "up"
  /\ Commit(setupPeerT([Cur EXCEPT !.peerInitiator = isInit], isInit))

\* io_.on("pd")
TextPartnerLeft ==
  /\ io_ = "up"
  /\ Commit(showFindNew(setDCT(Cur)))

\* pc.ondatachannel of a link set up with isInit false
DataChannelEvent ==
  /\ pc # 0 /\ ~peerInitiator /\ dc = 0
  /\ Commit([Cur EXCEPT !.dc = pc, !.dcState = "connecting"])

\* ch.onopen
DcOpen ==
  /\ dc # 0 /\ dcState = "connecting"
  /\ Commit(setConn([Cur EXCEPT !.dcState = "open"]))

\* the channel closes under the client: ch.onclose
DcClose ==
  /\ dc # 0 /\ dcState \in {"connecting", "open"}
  /\ Commit(onDcClose([Cur EXCEPT !.dcState = "closed"]))

\* ch.onclose of a channel that closePeer has closed
DcCloseLate ==
  \E t \in tasks :
    /\ t.k = "dcclose"
    /\ Commit(onDcClose([Cur EXCEPT !.tasks = @ \ {t}]))

\* The ICE agent of the link changes state (see IceChange)
TextIceChange(st, both) ==
  \E p \in open :
    /\ st # ice[p]
    /\ both => st = "failed"
    /\ LET s1 == onIceStateChangeT([Cur EXCEPT !.ice[p] = st])
       IN Commit(IF both THEN onConnStateChangeT(s1) ELSE s1)

NextText ==
  \/ TextGo \/ TextSkip \/ TextDisconnect \/ TextFindNew
  \/ Send \/ Typing
  \/ TextWaiting \/ TextPartnerLeft
  \/ \E i \in BOOLEAN : TextMatched(i)
  \/ DataChannelEvent \/ DcOpen \/ DcClose \/ DcCloseLate
  \/ \E st \in IceStates \ {"closed"}, both \in BOOLEAN : TextIceChange(st, both)
  \/ GraceTimer
  \/ \E ok \in BOOLEAN : OfferStep(ok)

\* The lobby of the text-chat client, signed in and the socket connected.
InitText ==
  /\ NoChat
  /\ screen = "L" /\ io_ = "up" /\ sockets = 1 /\ pc = 0 /\ open = {}
  /\ ice = [p \in PeerIds |-> "closed"] /\ hasLD = {}
  /\ localStream = 0 /\ live = {} /\ ended = {} /\ matched = FALSE /\ iceRestarts = 0
  /\ peerInitiator = FALSE /\ retryBtn = FALSE /\ tasks = {}
  /\ camOn = TRUE /\ micOn = TRUE /\ videoOn = {} /\ audioOn = {}
  /\ timers = [k \in {"grace", "q", "s"} |-> 0]
  /\ out = <<>> /\ offers = 0 /\ answers = 0 /\ attempts = 0 /\ failRun = 0
  /\ graceFor = <<>>
  /\ socket = "nil" /\ peerConnection = 0 /\ isInitiator = FALSE
  /\ isMatched = FALSE /\ isSearching = FALSE /\ capture = "nil"
  /\ probe = "none"

SpecText == InitText /\ [][NextText]_vars

\* ------------------------------------------------------ iOS user actions
\* AppState.startChat up to the completion of startLocalStream
startChat ==
  /\ screen = "lobby"
  /\ CommitI(post([CurI EXCEPT !.screen = "chat", !.isSearching = TRUE,
                               !.capture = "starting"],
                  Task("capture", "", FALSE, 0, "start", 0)))

\* The completion of startLocalStream and the main-actor task it starts;
\* the track is published also when cleanup has run in between.
CaptureDone(ok) ==
  \E t \in tasks :
    /\ t.k = "capture"
    /\ LET s0 == [CurI EXCEPT !.tasks = @ \ {t}] IN
       CommitI(IF ok
               THEN socketEmit([s0 EXCEPT !.capture = IF @ = "starting" THEN "on"
                                                      ELSE "track"], "q")
               ELSE s0)

\* AppState.skip
AppState_skip ==
  /\ screen = "chat"
  /\ CommitI(socketEmit(WebRTCService_closePeer(
               [CurI EXCEPT !.isMatched = FALSE, !.isSearching = TRUE]), "s"))

\* AppState.disconnect
AppState_disconnect ==
  /\ screen = "chat"
  /\ CommitI([cleanup([socketEmit(CurI, "s") EXCEPT !.isMatched = FALSE,
                                                    !.isSearching = FALSE])
                EXCEPT !.screen = "lobby"])

\* AppState.logout after `await apiService.logout()`
AppState_logout ==
  /\ screen = "lobby"
  /\ CommitI([cleanup([CurI EXCEPT !.socket = "nil"]) EXCEPT !.screen = "auth"])

\* -------------------------------------------------- iOS channel events
\* socket.on(clientEvent: .connect)
SocketConnect ==
  /\ socket = "down"
  /\ CommitI([CurI EXCEPT !.socket = "up"])

\* socket.on(clientEvent: .disconnect)
SocketDisconnect ==
  /\ socket = "up"
  /\ CommitI([CurI EXCEPT !.socket = "down"])

\* socket.on("force_logout") -> onForceLogout
onForceLogout ==
  /\ socket = "up"
  /\ CommitI([cleanup([CurI EXCEPT !.socket = "nil"]) EXCEPT !.screen = "auth"])

\* socket.on("w") -> onWaiting
onWaiting ==
  /\ socket = "up"
  /\ CommitI([CurI EXCEPT !.isSearching = TRUE, !.isMatched = FALSE])

\* socket.on("m") -> onMatched -> AppState.handleMatched
handleMatched(isInit) ==
  /\ socket = "up"
  /\ CommitI(WebRTCService_setupPeer(
               [CurI EXCEPT !.isSearching = TRUE, !.offers = 0, !.answers = 0], isInit))

\* socket.on("pd") -> onPartnerDisconnected
onPartnerDisconnected ==
  /\ socket = "up"
  /\ CommitI(handlePartnerDisconnected(CurI))

\* socket.on("offer") -> WebRTCService.handleOffer up to setRemoteDescription
handleOffer ==
  /\ socket = "up"
  /\ CommitI(IF peerConnection = 0 THEN ignore(CurI)
             ELSE post(CurI, Task("ans", "", FALSE, 0, "setRemote", peerConnection)))

\* socket.on("answer"), socket.on("ice"): handleAnswer, handleICE
handleAnswerOrICE ==
  /\ socket = "up"
  /\ \E ok \in BOOLEAN :
       CommitI(IF peerConnection = 0 \/ ~ok THEN ignore(CurI) ELSE CurI)

\* DispatchQueue.main.asyncAfter(0.5) in handlePartnerDisconnected
joinQueueTimer ==
  /\ timers["q"] > 0
  /\ CommitI(socketEmit([CurI EXCEPT !.timers["q"] = @ - 1], "q"))

\* --------------------------------------- iOS negotiation completions
\* A completion handler of `offer(for:) -> setLocalDescription -> onLocalOffer`.
\* createOffer (k = "offer1") continues on self.peerConnection, the
\* connection of that moment; tryICERestart (k = "restart") on the one it
\* captured.
offerCompletion(ok) ==
  \E t \in tasks :
    /\ t.k \in {"offer1", "restart"}
    /\ LET s0 == [CurI EXCEPT !.tasks = @ \ {t}] IN
       IF ~ok THEN CommitI(s0)
       ELSE IF t.st = "create"
            THEN CommitI(IF t.p # 0 /\ t.p = peerConnection
                         THEN post(s0, [t EXCEPT !.st = "setLocal"])
                         ELSE s0)
            ELSE CommitI(socketEmit(s0, "offer"))

\* A completion handler of handleOffer and createAnswer:
\* setRemoteDescription -> answer(for:) -> setLocalDescription -> onLocalAnswer
answerCompletion(ok) ==
  \E t \in tasks :
    /\ t.k = "ans"
    /\ LET s0 == [CurI EXCEPT !.tasks = @ \ {t}] IN
       IF ~ok THEN CommitI(ignore(s0))
       ELSE IF t.st = "setRemote"
            THEN CommitI(IF t.p # 0 /\ t.p = peerConnection
                         THEN post(s0, [t EXCEPT !.st = "create"])
                         ELSE s0)
            ELSE IF t.st = "create"
                 THEN CommitI(IF t.p # 0 /\ t.p = peerConnection
                              THEN post(s0, [t EXCEPT !.st = "setLocal"])
                              ELSE s0)
                 ELSE CommitI(socketEmit(s0, "answer"))

\* ------------------------------------------- iOS peer connection delegate
\* peerConnection(_:didAdd:) with a video track
didAddStream ==
  \E p \in open : CommitI(post(CurI, Hop("connected")))

\* peerConnection(_:didChange: RTCIceConnectionState)
didChangeIce(st) ==
  \E p \in open :
    /\ st # ice[p]
    /\ LET rec == probe = "link" /\ p = peerConnection
           s0  == [CurI EXCEPT !.ice[p] = st,
                     !.failRun = IF rec /\ st = "failed" THEN Min(@ + 1, MaxCount)
                                 ELSE IF rec /\ st \in {"connected", "completed"} THEN 0
                                 ELSE @]
       IN CommitI(IF st \in {"connected", "completed"} THEN post(s0, Hop("connected"))
                  ELSE IF st = "disconnected" THEN startGrace(s0, p)
                  ELSE IF st = "failed"
                       THEN IF s0.iceRestarts < MAX_ICE_RESTARTS
                            THEN restartAttemptI(s0)
                            ELSE post(s0, Hop("lost"))
                       ELSE s0)

\* DispatchQueue.main.asyncAfter(3) in the .disconnected case
graceTimerI ==
  /\ timers["grace"] > 0
  /\ LET s0 == [CurI EXCEPT !.timers["grace"] = @ - 1,
                            !.graceFor = IF @ = <<>> THEN @ ELSE Tail(@)] IN
     CommitI(IF peerConnection # 0 /\ ice[peerConnection] = "disconnected"
                /\ iceRestarts < MAX_ICE_RESTARTS
             THEN restartAttemptI(s0) ELSE s0)

\* The main-actor tasks of webRTCService.onConnected and onDisconnected
mainActorTask ==
  \E t \in tasks :
    /\ t.k = "hop"
    /\ LET s0 == [CurI EXCEPT !.tasks = @ \ {t}] IN
       CommitI(IF t.who = "connected"
               THEN [s0 EXCEPT !.isMatched = TRUE, !.isSearching = FALSE]
               ELSE handlePartnerDisconnected(s0))

\* ------------------------------------------------- the iOS client's chat
\* The user is signed in and startChat has completed: the camera captures
\* and joinQueue has been sent.
InChat ==
  /\ NoChat
  /\ screen = "chat" /\ socket = "up" /\ peerConnection = 0 /\ open = {}
  /\ ice = [p \in PeerIds |-> "closed"] /\ isInitiator = FALSE
  /\ isMatched = FALSE /\ isSearching = TRUE /\ capture = "on"
  /\ iceRestarts = 0 /\ tasks = {}
  /\ timers = [k \in {"grace", "q", "s"} |-> 0]
  /\ out = <<"q">> /\ offers = 0 /\ answers = 0 /\ attempts = 0 /\ failRun = 0
  /\ graceFor = <<>>
  /\ io_ = "null" /\ sockets = 0 /\ pc = 0 /\ hasLD = {} /\ localStream = 0 /\ live = {}
  /\ ended = {}
  /\ matched = FALSE /\ peerInitiator = FALSE /\ retryBtn = FALSE
  /\ camOn = TRUE /\ micOn = TRUE /\ videoOn = {} /\ audioOn = {}

\* The session of the iOS client, without the events of the ICE agent.
NextChat ==
  \/ startChat \/ AppState_skip \/ AppState_disconnect \/ AppState_logout
  \/ \E ok \in BOOLEAN : CaptureDone(ok)
  \/ SocketConnect \/ SocketDisconnect \/ onForceLogout \/ onWaiting
  \/ \E i \in BOOLEAN : handleMatched(i)
  \/ onPartnerDisconnected \/ handleOffer \/ handleAnswerOrICE
  \/ joinQueueTimer
  \/ \E ok \in BOOLEAN : offerCompletion(ok)
  \/ \E ok \in BOOLEAN : answerCompletion(ok)
  \/ didAddStream
  \/ mainActorTask

InitChat == InChat /\ probe = "none"

SpecChat == InitChat /\ [][NextChat]_vars

\* The iOS session when every pending timer fires and the socket, which
\* reconnects without limit, does reconnect.
SpecRejoin ==
  InitChat /\ [][NextChat]_vars
    /\ WF_vars(joinQueueTimer) /\ WF_vars(SocketConnect)

\* The link of the iOS client: negotiation and ICE resilience.
NextIOS ==
  \/ AppState_skip \/ onWaiting
  \/ \E i \in BOOLEAN : handleMatched(i)
  \/ onPartnerDisconnected \/ handleOffer \/ handleAnswerOrICE
  \/ joinQueueTimer
  \/ \E ok \in BOOLEAN : offerCompletion(ok)
  \/ \E ok \in BOOLEAN : answerCompletion(ok)
  \/ didAddStream
  \/ \E st \in IceStates \ {"closed"} : didChangeIce(st)
  \/ graceTimerI
  \/ mainActorTask

InitIOS == InChat /\ probe = "link"

SpecIOS == InitIOS /\ [][NextIOS]_vars

\* The iOS chat with each dropped signalling event recorded among the emits.
InitIgnoreI == InChat /\ probe = "ignore"

SpecIgnoreI == InitIgnoreI /\ [][NextIOS]_vars

\* The iOS chat with the link of each pending grace timer recorded.
InitTimerI == InChat /\ probe = "timer"

SpecTimerI == InitTimerI /\ [][NextIOS]_vars

\* --------------------------------- the iOS delegate thread, step by step
\* The .failed case of peerConnection(_:didChange:) up to and including its
\* test `iceRestarts < Config.maxICERestarts`.  The delegate is called on
\* the signaling thread of the WebRTC library, not on the main thread; the
\* value it has read (rung) and the connection it reports (p) stay with it.
iceFailedTest ==
  \E p \in open :
    /\ ice[p] # "failed"
    /\ LET s0 == [CurI EXCEPT !.ice[p] = "failed"] IN
       CommitI(IF iceRestarts < MAX_ICE_RESTARTS
               THEN post(s0, Task("failedCb", "", FALSE, iceRestarts, "tested", p))
               ELSE post(s0, Hop("lost")))

\* The rest of the case, `iceRestarts += 1; tryICERestart()`, after whatever
\* the main thread has done in between.  Nothing orders the two threads'
\* accesses: the increment adds to the value tested or to the one now stored.
iceFailedIncrement ==
  \E t \in tasks :
    /\ t.k = "failedCb"
    /\ \E v \in {t.rung, iceRestarts} :
         CommitI(tryICERestart([CurI EXCEPT !.tasks = @ \ {t}, !.iceRestarts = v + 1]))

NextThreads == NextIOS \/ iceFailedTest \/ iceFailedIncrement

InitThreads == InChat /\ probe = "none"

SpecThreads == InitThreads /\ [][NextThreads]_vars

\* ================================================================ claims
Emitted(k) == \E i \in 1..Len(out) : out[i] = k

\* The step emits event k on the socket.
Emits(k) == \E i \in 1..Len(out') : out'[i] = k

\* C1: at most one PeerLink is open at a time, also when a second `matched`
\* arrives while an earlier setupPeer still awaits getCamera.
C1_AtMostOnePeerLink == Cardinality(open) <= 1

\* C2: while the session is Idle (the chat screen is not shown) no PeerLink
\* is open and no capture stream is live.
C2_IdleHoldsNothing == screen # "C" => open = {} /\ live = {}

\* C9: a client whose current match came with init=false emits no offer.
C9_ResponderEmitsNoOffer == Emitted("offer") => peerInitiator


\* The ICE agent reports `failed` for the current link while the restart
\* budget is exhausted.
FailedWhenExhausted ==
  /\ pc # 0 /\ iceRestarts = MAX_ICE_RESTARTS
  /\ \E both \in BOOLEAN : IceChange("failed", both)

\* The grace timer fires while the current link is still `disconnected` and
\* the restart budget is exhausted.
GraceWhenExhausted ==
  /\ pc # 0 /\ iceRestarts = MAX_ICE_RESTARTS /\ ice[pc] = "disconnected"
  /\ GraceTimer

\* C3: after closePeer a negotiation continuation that was started for the
\* closed PeerLink emits no offer and no answer when it completes.
C3_ClosedLinkCompletionsSilent ==
  [][\A t \in tasks :
       t.k \in {"offer1", "restart", "ans"} /\ t.p = 0 /\ tasks' = tasks \ {t}
         => ~(Emits("offer") \/ Emits("answer"))]_vars

C6_ThreeFailuresRequeue ==
  failRun = MAX_ICE_RESTARTS /\ attempts = MAX_ICE_RESTARTS /\ tasks = {}
    => peerConnection = 0 /\ open = {} /\ isSearching /\ ~isMatched

\* C7: declaring the link unrecoverable has the effects of partnerLeft: the
\* PeerLink is closed, the stream is kept, and one joinQueue is scheduled.
C7_Original ==
  [][FailedWhenExhausted =>
       /\ pc' = 0 /\ localStream' = localStream /\ live' = live
       /\ timers' = [timers EXCEPT !["q"] = @ + 1]]_vars

\* A continuation at its last await, `setLocalDescription`, completes.
Completes(kinds) ==
  \E t \in tasks : t.k \in kinds /\ t.st = "setLocal" /\ tasks' = tasks \ {t}

\* C8 (as claimed): in a match cycle that began with init=true the client
\* emits one offer and no answer.
C8_Original == peerInitiator => offers <= 1 /\ answers = 0

\* C8 (amended): every offer is the last step of one createOffer chain, the
\* one setupPeer starts for init=true or the one of an ICE restart attempt,
\* and each chain emits one offer and nothing else; an answer is emitted
\* only by the handler of an inbound offer.
C8_Amended ==
  [][/\ Emits("offer") => Completes({"offer1", "restart"}) /\ out' = <<"offer">>
     /\ Emits("answer") => \E t \in tasks : t.k = "ans"]_vars

C8_Witness == peerInitiator /\ offers = 2 /\ answers = 0 /\ Emitted("offer")

\* C10 (as claimed): in a match cycle that began with init=false the client
\* emits one answer.
C10_Original == ~peerInitiator => answers <= 1

\* C10 (amended): every answer is the last step of the handling of one
\* inbound offer, and each handling emits one answer and nothing else: the
\* responder answers once per offer it receives, restart offers included.
C10_Amended ==
  [][Emits("answer") => Completes({"ans"}) /\ out' = <<"answer">>]_vars

C10_Witness == ~peerInitiator /\ answers = 2 /\ Emitted("answer")

\* C11: an offer delivered after `matched` is taken up, also one that
\* arrives right after the handler of `matched` has returned: the offer
\* handler then starts the chain that sets the remote description and answers.
C11_OfferAfterMatchedIsAnswered ==
  [][(\E i \in BOOLEAN : Matched(i)) /\ Cardinality(tasks') < MaxTasks
       => \E t \in onOffer(Cur').tasks \ tasks' : t.k = "ans"]_vars

\* C12: the joinQueue scheduled by partnerLeft is not emitted when the user
\* has left the chat before the timer fires.
C12_NoRequeueWhenIdle ==
  [][joinQueueTimer /\ screen # "chat" => ~Emits("q")]_vars

\* C13: a searching session whose joinQueue falls due while the channel is
\* down emits joinQueue in the end, unless the user stops searching or a
\* match arrives first.
C13_RejoinsAfterReconnect ==
  (screen = "chat" /\ isSearching /\ socket = "down" /\ timers["q"] > 0)
    ~> (Emitted("q") \/ screen # "chat" \/ ~isSearching \/ peerConnection # 0)

\* C14: skip closes the PeerLink, emits one `s`, clears the connected flag
\* and the restart counter, and leaves the stream, its tracks and the
\* enabled flags as they are.
C14_SkipEffects ==
  [][Skip =>
       /\ pc' = 0 /\ (pc # 0 => pc \notin open')
       /\ out' = <<"s">> /\ ~matched' /\ iceRestarts' = 0
       /\ localStream' = localStream /\ live' = live
       /\ camOn' = camOn /\ micOn' = micOn
       /\ videoOn' = videoOn /\ audioOn' = audioOn]_vars

C14_Witness ==
  /\ out = <<"s">> /\ pc = 0 /\ timers["grace"] > 0
  /\ ~camOn /\ localStream \in live /\ localStream \notin videoOn

\* C15: disconnect leaves the session Idle with no PeerLink open, no track
\* live, no stream referenced, the connected flag false, and one `s` emitted.
C15_DisconnectReleasesAll ==
  [][Disconnect =>
       /\ screen' = "L" /\ pc' = 0 /\ open' = {}
       /\ localStream' = 0 /\ live' = {}
       /\ ~matched' /\ out' = <<"s">>]_vars

\* C16: forceLogout closes the PeerLink, stops and clears the stream, drops
\* the channel and shows the sign-in screen; while the channel is dropped
\* no step emits an event, whatever timer or continuation was pending.
C16_ForceLogoutSilences ==
  /\ [][ForceLogout =>
          /\ pc' = 0 /\ (pc # 0 => pc \notin open')
          /\ localStream' = 0 /\ (localStream # 0 => localStream \notin live')
          /\ io_' = "null" /\ screen' = "A"]_vars
  /\ [](io_ = "null" => out = <<>>)

C16_Witness ==
  io_ = "null" /\ screen = "A" /\ timers["q"] > 0 /\ tasks # {}

\* C17: within one step that leaves Negotiating or Connected, the close of
\* the PeerLink comes before the control message (`s` or `q`) it emits.
C17_CloseBeforeControl ==
  \A i, j \in DOMAIN out :
    out[i] \in {"s", "q"} /\ out[j] = "close" => j < i

\* C18: Start emits one `q`, at once when a live stream is held and else
\* when its getCamera has returned a stream, never earlier; when every
\* getUserMedia attempt fails it emits nothing, creates no connection,
\* schedules nothing and offers the retry button.
C18_StartJoinsAfterMedia ==
  [][/\ Go => /\ pc' = pc /\ open' = open
              /\ out' = IF localStream # 0 /\ localStream \in live
                        THEN <<"q">> ELSE <<>>
     /\ \A t \in tasks \ tasks' :
          t.k = "cam" /\ t.who = "go" =>
            /\ pc' = pc /\ open' = open /\ timers' = timers
            /\ t.st = "gum" => out' = <<>>
            /\ t.st = "gum" /\ localStream' = 0 => retryBtn' /\ tasks' = tasks \ {t}
            /\ t.st = "play" =>
                 /\ tasks' = tasks \ {t}
                 /\ out' = IF localStream # 0 /\ io_ # "null" THEN <<"q">> ELSE <<>>]_vars

C18_Witness ==
  /\ screen = "C" /\ retryBtn /\ localStream = 0 /\ live = {}
  /\ pc = 0 /\ open = {} /\ tasks = {} /\ out = <<>> /\ io_ = "up"

\* C19: a camera or microphone toggle emits nothing and changes neither
\* the connection, its ICE state, the matched flag, the restart counter,
\* the socket, the stream nor anything pending; it changes only its own
\* flag and the enabled state of that kind of track of localStream.
C19_TogglesAreLocal ==
  [][CamToggle \/ MicToggle =>
       /\ out' = <<>> /\ pc' = pc /\ open' = open /\ ice' = ice
       /\ hasLD' = hasLD /\ matched' = matched /\ iceRestarts' = iceRestarts
       /\ io_' = io_ /\ tasks' = tasks /\ timers' = timers
       /\ localStream' = localStream /\ live' = live /\ screen' = screen
       /\ videoOn' \ {localStream} = videoOn \ {localStream}
       /\ audioOn' \ {localStream} = audioOn \ {localStream}
       /\ camOn' = camOn \/ micOn' = micOn
       /\ camOn' = camOn => videoOn' = videoOn
       /\ micOn' = micOn => audioOn' = audioOn]_vars

C19_Witness ==
  /\ matched /\ pc # 0 /\ ice[pc] = "connected" /\ localStream \in live
  /\ ~micOn /\ localStream \notin audioOn /\ camOn /\ localStream \in videoOn

\* C20: in every state, closePeer called twice leaves what closePeer called
\* once leaves, with pc.close() run at most once and nothing thrown, and
\* likewise stopCamera.
C20_CloseAndStopIdempotent ==
  /\ closePeer(closePeer(Cur)) = closePeer(Cur)
  /\ stopCamera(stopCamera(Cur)) = stopCamera(Cur)
  /\ Len(closePeer(closePeer(Cur)).out) <= 1
  /\ ~closePeer(closePeer(Cur)).threw /\ ~stopCamera(stopCamera(Cur)).threw

C20_Witness ==
  /\ pc # 0 /\ pc \in open /\ localStream \in live
  /\ closePeer(Cur).out = <<"close">>
  /\ closePeer(Cur).pc = 0 /\ stopCamera(Cur).localStream = 0

\* C21: getCamera reports failure only when every rung failed: when the
\* lv.play() of a call whose getUserMedia succeeded on some rung settles,
\* the caller ($("go").onclick or retryCamera) is handed a stream and does
\* not show the camera error with the retry button.
C21_NullOnlyWhenAllRungsFail ==
  [][\A t \in tasks \ tasks' :
       t.k = "cam" /\ t.st = "play" /\ t.rung \in 1..Rungs /\ t.who # "setup"
         => ~retryBtn']_vars

\* C22: a link whose ICE state is already connected or completed has had
\* its notification (from the handler that saw it become so); as long as
\* that link stays the session's link, no step calls setConnected again.
C22_OneNotificationPerLink ==
  [][pc # 0 /\ pc' = pc /\ ice[pc] \in {"connected", "completed"}
       => ~Emits("connected")]_vars

\* C23: the connected flag becomes true only for the session's current
\* link; in particular a step that sets it finds a PeerLink in place.
C23_ConnectedOnlyOnCurrentLink ==
  [][~isMatched /\ isMatched' => peerConnection' # 0]_vars

\* C24: no handler runs between the test of the restart counter and its
\* increment in the .failed case of the ICE delegate callback: when the
\* increment is made, the counter still holds the value tested and the
\* connection that reported is still the session's PeerLink.
C24_FailedBranchNotInterleaved ==
  [][\A t \in tasks \ tasks' :
       t.k = "failedCb" => iceRestarts = t.rung /\ peerConnection = t.p]_vars

\* C25: at most one socket exists, io_ references it exactly when it
\* exists, and a socket is made only when none exists.
C25_OneChannel ==
  /\ [](sockets <= 1 /\ (sockets = 0 <=> io_ = "null"))
  /\ [][sockets' > sockets => sockets = 0 /\ io_ = "null"]_vars

C25_Witness ==
  /\ sockets = 1 /\ io_ = "up" /\ screen = "L"
  /\ \E t \in tasks : t.k \in {"logout", "delete"}

\* C26: a grace timer that spends restart budget is the timer of the
\* episode it finds: timers fire in the order they were set, so no timer
\* of an earlier `disconnected` event is pending beside it.
C26_GraceTimerOfItsEpisode ==
  [][GraceTimer /\ iceRestarts' > iceRestarts => timers["grace"] = 1]_vars

\* C27: a `failed` report of the session's link that arrives while the
\* restart counter is below MAX_ICE_RESTARTS leaves the link open and in
\* place and takes one unit of the budget, whichever handlers it runs.
C27_FailedWithBudgetKeepsLink ==
  [][/\ \E both \in BOOLEAN : IceChange("failed", both)
     /\ pc # 0 /\ open = {pc} /\ ice[pc] # "failed"
     /\ iceRestarts < MAX_ICE_RESTARTS
     => pc' = pc /\ pc \in open' /\ iceRestarts' = iceRestarts + 1]_vars

\* C28: once the link's ICE state is connected or completed and every
\* block queued by the delegate has run, the restart counter is 0.
C28_HealthyLinkHasFullBudget ==
  peerConnection # 0 /\ ice[peerConnection] \in {"connected", "completed"}
    /\ tasks = {} => iceRestarts = 0

\* C29: the restart counter stays within 0..MAX_ICE_RESTARTS and is 0
\* while the session has no PeerLink.
C29_CounterInRange ==
  /\ iceRestarts \in 0..MAX_ICE_RESTARTS
  /\ peerConnection = 0 => iceRestarts = 0

\* C30: an offer, answer or ice event that arrives while no PeerLink exists,
\* or that the PeerLink rejects, is ignored (web): the step that drops it
\* changes nothing of the session, emits nothing, and the offer handler
\* raises no exception.
C30_DroppedEventChangesNothing ==
  /\ [][Emits("ignored")
         => /\ out' = <<"ignored">>
            /\ UNCHANGED <<screen, open, ice, iceRestarts, timers, offers, answers,
                           attempts, failRun, webOnly>>]_vars
  /\ [](~onOffer(Cur).threw)

\* C30 witness: an event was dropped while the client has a PeerLink and a
\* peer, so the PeerLink rejected it.
C30_Witness ==
  pc # 0 /\ pc \in open /\ io_ = "up" /\ screen = "C" /\ out = <<"ignored">>

\* C30 on iOS: the step that drops an offer, answer or ice event changes
\* nothing of the session and emits nothing.
C30_DroppedEventChangesNothingIOS ==
  [][Emits("ignored")
       => /\ out' = <<"ignored">>
          /\ UNCHANGED <<screen, open, ice, iceRestarts, timers, offers, answers,
                         attempts, failRun, iosOnly>>]_vars

\* C30 on iOS, the event that arrives while peerConnection is nil.
C30_WitnessIOS ==
  peerConnection = 0 /\ socket = "up" /\ screen = "chat" /\ out = <<"ignored">>

\* C31: the channel's disconnect and reconnect events change nothing of the
\* session (web): PeerLink, connected flag, restart counter, MediaHandle,
\* pending work and timers are unchanged and nothing is emitted; only the
\* status display (and the channel's own state) may change.
C31_OutageLeavesSession ==
  [][SocketDown \/ SocketUp
       => /\ out' = <<>>
          /\ UNCHANGED <<screen, open, ice, iceRestarts, tasks, timers, pc, hasLD,
                         localStream, live, matched, peerInitiator, camOn, micOn,
                         videoOn, audioOn, sockets>>]_vars

\* C31 witness: the channel is down while the session is connected on an
\* open PeerLink with its MediaHandle.
C31_Witness ==
  /\ io_ = "down" /\ matched /\ pc # 0 /\ pc \in open
  /\ ice[pc] = "connected" /\ localStream \in live

\* C31 on iOS: the disconnect and connect events of the socket change nothing
\* of the session and emit nothing.
C31_OutageLeavesSessionIOS ==
  [][SocketDisconnect \/ SocketConnect
       => /\ out' = <<>>
          /\ UNCHANGED <<screen, open, ice, iceRestarts, tasks, timers,
                         peerConnection, isInitiator, isMatched, isSearching,
                         capture>>]_vars

\* C31 on iOS, the socket down while searching on the chat screen.
C31_WitnessIOS ==
  socket = "down" /\ screen = "chat" /\ isSearching

\* C32: getCamera called while a track of the MediaHandle has ended treats
\* the handle as absent and runs the acquisition ladder again.
C32_RevokedHandleReacquired ==
  [][/\ \E i \in BOOLEAN : Matched(i)
     /\ localStream # 0 /\ (localStream \notin live \/ localStream \in ended)
     => \E t \in tasks' \ tasks : t.k = "cam" /\ t.st = "gum"]_vars

\* C33: every capture stream that is still live is the stream the session
\* references in localStream, also when getCamera calls overlap.
C33_NoUnreferencedLiveStream == live \subseteq {localStream}

\* C34: whenever the session reports itself connected a PeerLink exists.
C34_ConnectedHasLink == matched => pc # 0

\* C35: a grace timer that was set for a PeerLink closed since makes no
\* restart attempt when it fires: the counter is not incremented and no
\* restart offer is begun on the link that exists now.
C35_StaleGraceTimerInert ==
  [][GraceTimer /\ graceFor # <<>> /\ Head(graceFor) = 0
       => iceRestarts' = iceRestarts /\ tasks' \subseteq tasks]_vars

\* C36: the camera and microphone flags shown to the user equal the enabled
\* state of the video and audio tracks of the stream the session holds.
C36_FlagsMatchTracks ==
  localStream # 0 /\ localStream \in live
    => /\ camOn <=> localStream \in videoOn
       /\ micOn <=> localStream \in audioOn

\* C37: a start or camera-retry continuation that resumes after its
\* getCamera raises no exception: it does not emit on a channel that has
\* been dropped.
C37_NoEmitOnDroppedChannel ==
  [][\A t \in tasks \ tasks' :
       t.k = "cam" /\ t.st = "play" /\ t.who \in {"go", "retry"}
         => ~afterCamera(Cur, t.who, t.init, localStream).threw]_vars

\* C38: a chat message submitted while matched with the data channel not
\* open goes to the end of the queue and is not sent; a typing indicator is
\* never queued; when the data channel opens every queued message is sent
\* once, in the order of submission, and the queue is left empty.
C38_QueueThenFlushInOrder ==
  /\ [][Send /\ matched /\ ~(dc # 0 /\ dcState = "open")
          => /\ msgQueue' = Append(msgQueue, Msg(written + 1, cycle))
             /\ sent' = sent]_vars
  /\ [][Typing => msgQueue' = msgQueue /\ sent' = sent]_vars
  /\ [][DcOpen
          => /\ msgQueue' = <<>>
             /\ Len(sent') = Len(sent) + Len(msgQueue)
             /\ \A i \in 1..Len(sent) : sent'[i] = sent[i]
             /\ \A i \in 1..Len(msgQueue) :
                  /\ sent'[Len(sent) + i].id = msgQueue[i].id
                  /\ sent'[Len(sent) + i].at = cycle]_vars
  /\ [](\A i, j \in 1..Len(sent) : sent[i].id = sent[j].id => i = j)

\* C38 witness: the channel has opened and the last two messages sent came
\* from the queue (they were written before the channel existed), in the
\* order of submission.
C38_Witness ==
  /\ Len(sent) >= 2 /\ msgQueue = <<>> /\ dc # 0 /\ dcState = "open" /\ matched
  /\ sent[Len(sent) - 1].id < sent[Len(sent)].id
  /\ sent[Len(sent) - 1].for < sent[Len(sent) - 1].at
  /\ sent[Len(sent)].for < sent[Len(sent)].at

\* C39: no chat message is sent in a match cycle other than the one it was
\* written in: the queue is empty whenever a PeerLink is set up.
C39_QueueEmptyAtSetup ==
  /\ [][cycle' # cycle => msgQueue = <<>>]_vars
  /\ [](\A i \in 1..Len(sent) : sent[i].for = sent[i].at)

====
